---- MODULE Spec2Model ----
(***************************************************************************)
(* Model of the DGM / VELMOD conversion script (scripts/convert.py) and of *)
(* the sampler (dgm_velmod_sampler/sample_dgm_velmod.py).                  *)
(*                                                                         *)
(* Floating point values are modelled exactly: a value is NaN, -inf, +inf  *)
(* or a rational number n/d in lowest terms.  Arithmetic follows IEEE-754  *)
(* for the special values (NaN is absorbing, 0 * inf = NaN, every          *)
(* comparison with NaN is false).                                          *)
(***************************************************************************)
EXTENDS Integers, Sequences, FiniteSets, TLC

VARIABLES
    velmod_zmap_list,   \* set of VELMOD grid files found by the glob
    velmoddata,         \* the k table read from the csv file: unit -> k
    dgm_zmap_list,      \* sequence of DGM grid files (glob order)
    pc,                 \* position of convert(): start, velmod_done, done, failed
    out_velmod,         \* persisted VELMOD model (written = FALSE: no file)
    out_dgm,            \* persisted DGM model   (written = FALSE: no file)
    call                \* the last call of sample_dgm_velmod: arguments and outcome

vars == <<velmod_zmap_list, velmoddata, dgm_zmap_list, pc, out_velmod, out_dgm, call>>

----------------------------------------------------------------------------
(* Bounds of the model *)

\* largest number of VELMOD grid files in one conversion run
MaxVelmodFiles == 3

\* largest number of DGM grid files in one conversion run
MaxDgmFiles == 2

----------------------------------------------------------------------------
(* Floating point values *)

NaN == [k |-> "nan", n |-> 0, d |-> 1]

NegInf == [k |-> "ninf", n |-> 0, d |-> 1]

PosInf == [k |-> "pinf", n |-> 0, d |-> 1]

Abs(i) == IF i < 0 THEN -i ELSE i

RECURSIVE GCD(_, _)
GCD(a, b) == IF b = 0 THEN a ELSE GCD(b, a % b)

\* the rational n/d (d # 0) in lowest terms with a positive denominator
Rat(n, d) ==
    LET g == GCD(Abs(n), Abs(d))
        s == IF d < 0 THEN -1 ELSE 1
    IN  [k |-> "num", n |-> s * (n \div g), d |-> s * (d \div g)]

Num(i) == Rat(i, 1)

IsNaN(a) == a.k = "nan"

IsNum(a) == a.k = "num"

Sign(a) ==
    CASE a.k = "ninf" -> -1
      [] a.k = "pinf" -> 1
      [] OTHER -> IF a.n < 0 THEN -1 ELSE IF a.n > 0 THEN 1 ELSE 0

FNeg(a) ==
    CASE a.k = "nan" -> NaN
      [] a.k = "ninf" -> PosInf
      [] a.k = "pinf" -> NegInf
      [] OTHER -> Rat(-a.n, a.d)

FAdd(a, b) ==
    CASE IsNaN(a) \/ IsNaN(b) -> NaN
      [] IsNum(a) /\ IsNum(b) -> Rat(a.n * b.d + b.n * a.d, a.d * b.d)
      [] IsNum(a) -> b
      [] IsNum(b) -> a
      [] OTHER -> IF a.k = b.k THEN a ELSE NaN

FSub(a, b) == FAdd(a, FNeg(b))

FMul(a, b) ==
    CASE IsNaN(a) \/ IsNaN(b) -> NaN
      [] IsNum(a) /\ IsNum(b) -> Rat(a.n * b.n, a.d * b.d)
      [] OTHER -> IF Sign(a) * Sign(b) = 0 THEN NaN
                  ELSE IF Sign(a) * Sign(b) < 0 THEN NegInf ELSE PosInf

\* a / c for an integer count c; 0/0 is NaN
FDivInt(a, c) ==
    IF c = 0 THEN NaN
    ELSE CASE IsNum(a) -> Rat(a.n, a.d * c)
           [] OTHER -> a

\* a < b; false whenever one side is NaN
FLt(a, b) ==
    CASE IsNaN(a) \/ IsNaN(b) -> FALSE
      [] IsNum(a) /\ IsNum(b) -> a.n * b.d < b.n * a.d
      [] a.k = "ninf" -> b.k # "ninf"
      [] b.k = "pinf" -> a.k # "pinf"
      [] OTHER -> FALSE

----------------------------------------------------------------------------
(* Sorting helpers *)

\* the elements of a finite set of integers in increasing order
RECURSIVE SortedSeq(_)
SortedSeq(S) ==
    IF S = {} THEN << >>
    ELSE LET m == CHOOSE x \in S : \A y \in S : x <= y
         IN  <<m>> \o SortedSeq(S \ {m})

Range(s) == {s[i] : i \in DOMAIN s}

----------------------------------------------------------------------------
(* scripts/convert.py: constants *)

crs_UTM31 == "epsg:23031"

\* hard coded ordering of units, top to bottom
unit_canonical_order ==
    << "N", "NU", "NLNM", "NM", "NL", "CK", "KN", "KNG", "KNGL", "KNN", "S", "SL",
       "SG", "SK", "ATPO", "AT", "TR", "RN", "RB", "ZE", "RO", "DCC", "DC", "CL" >>

InVocabulary(u) == \E i \in DOMAIN unit_canonical_order : unit_canonical_order[i] = u

\* unit_canonical_order.index(u): the 0-based position of the first occurrence
\* (the caller checks InVocabulary first: list.index raises ValueError otherwise)
OrderIndex(u) ==
    (CHOOSE i \in DOMAIN unit_canonical_order :
        /\ unit_canonical_order[i] = u
        /\ \A j \in DOMAIN unit_canonical_order : unit_canonical_order[j] = u => i <= j) - 1

\* a sort that puts the largest ordering first
RECURSIVE SortByOrderingDescending(_, _)
SortByOrderingDescending(U, ord) ==
    IF U = {} THEN << >>
    ELSE LET m == CHOOSE u \in U : \A w \in U : ord[u] >= ord[w]
         IN  <<m>> \o SortByOrderingDescending(U \ {m}, ord)

\* sortby("ordering"): the units of a set as a sequence, ascending by ordering
RECURSIVE SortByOrdering(_, _)
SortByOrdering(U, ord) ==
    IF U = {} THEN << >>
    ELSE LET m == CHOOSE u \in U : \A w \in U : ord[u] <= ord[w]
         IN  <<m>> \o SortByOrdering(U \ {m}, ord)

----------------------------------------------------------------------------
(* scripts/convert.py: reading one grid file *)

Cells(xs, ys) == xs \X ys

\* the dense (y, x) matrix built by set_index(["X", "Y"]).unstack(): the sorted
\* unique x and y values of the node listing, NaN where a combination is absent
Unstack(nodes) ==
    LET xs == {c[1] : c \in DOMAIN nodes}
        ys == {c[2] : c \in DOMAIN nodes}
    IN  [xs |-> xs, ys |-> ys,
         val |-> [c \in Cells(xs, ys) |-> IF c \in DOMAIN nodes THEN nodes[c] ELSE NaN]]

\* zmap_file.stem.replace("NLM", "NLNM") + "_mean", split at "_"
VelmodNameList(name) ==
    [i \in 1..Len(name) |-> IF name[i] = "NLM" THEN "NLNM" ELSE name[i]] \o <<"mean">>

\* velmod_zmap_to_xarray raises: zmapio rejects the file, or name_list[4] is missing
VelmodReadFails(f) == f.malformed \/ Len(VelmodNameList(f.name)) < 5

velmod_zmap_to_xarray(f) ==
    LET name_list == VelmodNameList(f.name)
        g == Unstack(f.nodes)
    IN  [unit |-> name_list[1], variable |-> name_list[3],
         kriging_type |-> name_list[4], summary_statistic |-> name_list[5],
         xs |-> g.xs, ys |-> g.ys, val |-> g.val, crs |-> crs_UTM31]

\* dgm_zmap_to_xarray raises: zmapio rejects the file, or name_list[1] is missing
DgmReadFails(f) == f.malformed \/ Len(f.name) < 2

dgm_zmap_to_xarray(f) ==
    LET g == Unstack(f.nodes)
    IN  [unit |-> f.name[1], var |-> f.name[2],
         xs |-> g.xs, ys |-> g.ys, val |-> g.val, crs |-> crs_UTM31]

----------------------------------------------------------------------------
(* scripts/convert.py: the VELMOD part of convert() *)

VelmodKey(a) == <<a.unit, a.variable, a.kriging_type, a.summary_statistic>>

\* the value of the concatenated and unstacked array at one index: the value of
\* the file with that key, NaN where no file has the key or the cell
VelmodAt(ds, u, v, ks, c) ==
    IF \E a \in ds : VelmodKey(a) = <<u, v, ks[1], ks[2]>> /\ c \in DOMAIN a.val
    THEN (CHOOSE a \in ds : VelmodKey(a) = <<u, v, ks[1], ks[2]>> /\ c \in DOMAIN a.val).val[c]
    ELSE NaN

\* set_index(...).unstack() raises on two entries with the same index
VelmodDuplicates(ds) == \E a, b \in ds : a # b /\ VelmodKey(a) = VelmodKey(b)

\* dropna("x", "all"): the x labels with a valid value somewhere in the array
VelmodKeptX(ds) ==
    {x \in UNION {a.xs : a \in ds} :
        \E a \in ds : \E c \in DOMAIN a.val : c[1] = x /\ ~IsNaN(a.val[c])}

\* dropna("y", "all"), applied after the x labels were dropped
VelmodKeptY(ds) ==
    {y \in UNION {a.ys : a \in ds} :
        \E a \in ds : \E c \in DOMAIN a.val :
            c[2] = y /\ c[1] \in VelmodKeptX(ds) /\ ~IsNaN(a.val[c])}

RECURSIVE SumValid(_, _)
\* the sum of the valid (non NaN) values of field over the cells C
SumValid(field, C) ==
    IF C = {} THEN Num(0)
    ELSE LET c == CHOOSE x \in C : TRUE
         IN  IF IsNaN(field[c]) THEN SumValid(field, C \ {c})
             ELSE FAdd(field[c], SumValid(field, C \ {c}))

\* DataArray.mean(["x", "y"]): NaN cells are skipped, NaN when no cell is valid
MeanXY(field) ==
    LET valid == {c \in DOMAIN field : ~IsNaN(field[c])}
    IN  FDivInt(SumValid(field, valid), Cardinality(valid))

\* a fill by the mean over the cells of all units
FillNaGlobalMean(V0) ==
    [u \in DOMAIN V0 |-> [ks \in DOMAIN V0[u] |->
        [c \in DOMAIN V0[u][ks] |->
            IF IsNaN(V0[u][ks][c])
            THEN LET all == [uc \in (DOMAIN V0) \X (DOMAIN V0[u][ks]) |-> V0[uc[1]][ks][uc[2]]]
                 IN  MeanXY(all)
            ELSE V0[u][ks][c]]]]

\* V0.fillna(V0.mean(["x", "y"])): per unit and per (kriging type, statistic)
FillNa(V0) ==
    [u \in DOMAIN V0 |-> [ks \in DOMAIN V0[u] |->
        [c \in DOMAIN V0[u][ks] |->
            IF IsNaN(V0[u][ks][c]) THEN MeanXY(V0[u][ks]) ELSE V0[u][ks][c]]]]

\* the substitution left out
SubstituteNothing(V0, Vint) == V0

\* velmod_UTM["V0"].loc[{"unit": "ZE"}] = velmod_UTM["Vint"].loc[{"unit": "ZE"}]
SubstituteZE(V0, Vint) == [V0 EXCEPT !["ZE"] = Vint["ZE"]]

NoModel == [written |-> FALSE]

\* the outcome of the VELMOD part: ok = FALSE when an exception is raised before
\* to_netcdf, else the dataset that is written
ConvertVelmod(files, ktable) ==
    IF \E f \in files : VelmodReadFails(f) THEN [ok |-> FALSE, why |-> "read"]
    ELSE
    LET ds == {velmod_zmap_to_xarray(f) : f \in files}
    IN
    IF ds = {} THEN [ok |-> FALSE, why |-> "concat"]
    ELSE IF VelmodDuplicates(ds) THEN [ok |-> FALSE, why |-> "unstack"]
    ELSE
    LET variables == {a.variable : a \in ds}
        KS == {a.kriging_type : a \in ds} \X {a.summary_statistic : a \in ds}
        xs == VelmodKeptX(ds)
        ys == VelmodKeptY(ds)
        \* xr.merge with the k table: outer join on unit
        units == {a.unit : a \in ds} \cup DOMAIN ktable
        Arr(v) == [u \in units |-> [ks \in KS |->
                      [c \in Cells(xs, ys) |-> VelmodAt(ds, u, v, ks, c)]]]
    IN
    IF \E u \in units : ~InVocabulary(u) THEN [ok |-> FALSE, why |-> "ordering"]
    ELSE IF "V0" \notin variables \/ "Vint" \notin variables \/ "ZE" \notin units
         THEN [ok |-> FALSE, why |-> "key"]
    ELSE
    LET ordering == [u \in units |-> OrderIndex(u)]
        V0 == SubstituteZE(Arr("V0"), Arr("Vint"))
    IN  [ok |-> TRUE, why |-> "",
         model |-> [written |-> TRUE, crs |-> crs_UTM31,
                    unit |-> SortByOrdering(units, ordering), ordering |-> ordering,
                    xs |-> xs, ys |-> ys, KS |-> KS,
                    V0 |-> V0, Vint |-> Arr("Vint"), V0_filled |-> FillNa(V0),
                    k |-> [u \in units |-> IF u \in DOMAIN ktable THEN ktable[u] ELSE NaN]]]

----------------------------------------------------------------------------
(* scripts/convert.py: the DGM part of convert() *)

\* last = xr.full_like(dgmds[0], -math.inf); last["unit"] = "DC"
TerminalUnit(first) ==
    [first EXCEPT !.unit = "DC", !.val = [c \in DOMAIN first.val |-> NegInf]]

DgmKey(a) == <<a.unit, a.var>>

\* s is a sequence of arrays: two entries with the same (unit, var) index
DgmDuplicates(s) == \E i, j \in DOMAIN s : i # j /\ DgmKey(s[i]) = DgmKey(s[j])

DgmAt(s, u, v, c) ==
    IF \E i \in DOMAIN s : DgmKey(s[i]) = <<u, v>> /\ c \in DOMAIN s[i].val
    THEN s[CHOOSE i \in DOMAIN s : DgmKey(s[i]) = <<u, v>> /\ c \in DOMAIN s[i].val].val[c]
    ELSE NaN

\* dropna("x", "all")
DgmKeptX(s) ==
    {x \in UNION {s[i].xs : i \in DOMAIN s} :
        \E i \in DOMAIN s : \E c \in DOMAIN s[i].val : c[1] = x /\ ~IsNaN(s[i].val[c])}

\* dropna("y", "all"), applied after the x labels were dropped
DgmKeptY(s) ==
    {y \in UNION {s[i].ys : i \in DOMAIN s} :
        \E i \in DOMAIN s : \E c \in DOMAIN s[i].val :
            c[2] = y /\ c[1] \in DgmKeptX(s) /\ ~IsNaN(s[i].val[c])}

\* the outcome of the DGM part: ok = FALSE when an exception is raised before
\* to_netcdf, else the dataset that is written
ConvertDgm(files) ==
    IF \E i \in DOMAIN files : DgmReadFails(files[i]) THEN [ok |-> FALSE, why |-> "read"]
    ELSE IF Len(files) = 0 THEN [ok |-> FALSE, why |-> "index"]
    ELSE
    LET parsed == [i \in DOMAIN files |-> dgm_zmap_to_xarray(files[i])]
        dgmds == Append(parsed, TerminalUnit(parsed[1]))
    IN
    IF DgmDuplicates(dgmds) THEN [ok |-> FALSE, why |-> "unstack"]
    ELSE
    LET units == {dgmds[i].unit : i \in DOMAIN dgmds}
        variables == {dgmds[i].var : i \in DOMAIN dgmds}
        xs == DgmKeptX(dgmds)
        ys == DgmKeptY(dgmds)
    IN
    IF \E u \in units : ~InVocabulary(u) THEN [ok |-> FALSE, why |-> "ordering"]
    ELSE
    LET ordering == [u \in units |-> OrderIndex(u)]
    IN  [ok |-> TRUE, why |-> "",
         model |-> [written |-> TRUE, crs |-> crs_UTM31,
                    unit |-> SortByOrdering(units, ordering), ordering |-> ordering,
                    xs |-> xs, ys |-> ys, variables |-> variables,
                    data |-> [v \in variables |-> [u \in units |->
                                 [c \in Cells(xs, ys) |-> DgmAt(dgmds, u, v, c)]]]]]

----------------------------------------------------------------------------
(* dgm_velmod_sampler/sample_dgm_velmod.py *)

\* Dataset.interp({"x": x, "y": y}) for paired query coordinates: multilinear
\* interpolation on the rectilinear grid.  The cell is found by a bisection
\* clipped to the grid, all four corners enter the weighted sum (also those with
\* weight 0), and a query outside the axis bounds gives NaN.  The interpolation
\* library bisects to the left (a node belongs to the interval below it) or to
\* the right (to the interval above it), depending on its version: side.
FindIndex(axis, q, side) ==
    LET cnt == IF side = "left"
               THEN Cardinality({j \in DOMAIN axis : axis[j] < q})
               ELSE Cardinality({j \in DOMAIN axis : axis[j] <= q})
    IN  IF cnt < 1 THEN 1 ELSE IF cnt > Len(axis) - 1 THEN Len(axis) - 1 ELSE cnt

NormDistance(axis, i, q) == Rat(q - axis[i], axis[i + 1] - axis[i])

Interp(xs, ys, field, q, side) ==
    LET xa == SortedSeq(xs)
        ya == SortedSeq(ys)
    IN  IF \/ q[1] < xa[1] \/ q[1] > xa[Len(xa)]
           \/ q[2] < ya[1] \/ q[2] > ya[Len(ya)]
        THEN NaN
        ELSE LET i == FindIndex(xa, q[1], side)
                 j == FindIndex(ya, q[2], side)
                 tx == NormDistance(xa, i, q[1])
                 ty == NormDistance(ya, j, q[2])
                 wx == <<FSub(Num(1), tx), tx>>
                 wy == <<FSub(Num(1), ty), ty>>
                 Term(a, b) == FMul(field[<<xa[i + a - 1], ya[j + b - 1]>>], FMul(wx[a], wy[b]))
             IN  FAdd(FAdd(Term(1, 1), Term(1, 2)), FAdd(Term(2, 1), Term(2, 2)))

\* the assertion on the coordinate reference systems of dgm and velmod
CrsMatchAlways(dgm, velmod) == TRUE

CrsMatch(dgm, velmod) == dgm.crs = velmod.crs

\* np.intersect1d(dgm["unit"], velmod["unit"])
sel_units(dgm, velmod) == Range(dgm.unit) \cap Range(velmod.unit)

\* the label of the last True along the unit axis
IdxMaxLastTrue(unit, below) ==
    IF \E i \in DOMAIN unit : below[unit[i]]
    THEN unit[CHOOSE i \in DOMAIN unit : below[unit[i]] /\ \A j \in (i + 1)..Len(unit) : ~below[unit[j]]]
    ELSE unit[1]

\* an all False column resolved to the last unit
IdxMaxFallbackLast(unit, below) ==
    IF \E i \in DOMAIN unit : below[unit[i]]
    THEN unit[CHOOSE i \in DOMAIN unit : below[unit[i]] /\ \A j \in 1..(i - 1) : ~below[unit[j]]]
    ELSE unit[Len(unit)]

\* (dgm_itp["tvd"] < z).idxmax("unit"): the label of the first True along the
\* unit axis; argmax of an all False column is position 0
IdxMax(unit, below) ==
    IF \E i \in DOMAIN unit : below[unit[i]]
    THEN unit[CHOOSE i \in DOMAIN unit : below[unit[i]] /\ \A j \in 1..(i - 1) : ~below[unit[j]]]
    ELSE unit[1]

RECURSIVE SumSkipNa(_, _)
\* DataArray.sum("unit"): NaN entries are skipped
SumSkipNa(unit, val) ==
    IF unit = << >> THEN Num(0)
    ELSE IF IsNaN(val[Head(unit)]) THEN SumSkipNa(Tail(unit), val)
         ELSE FAdd(val[Head(unit)], SumSkipNa(Tail(unit), val))

\* the values kept whatever the mask
WhereUnmasked(mask, val) == val

\* unit_vinst.where(unit_mask, 0.0)
Where(mask, val) == IF mask THEN val ELSE Num(0)

\* the outcome of sample_dgm_velmod(x, y, z, dgm, velmod): raised = TRUE when an
\* exception leaves the call; x and y are paired, z is << >> for None
sample_dgm_velmod(x, y, has_z, z, dgm, velmod, side) ==
    IF ~CrsMatch(dgm, velmod) THEN [raised |-> TRUE, why |-> "crs"]
    ELSE
    LET sel == sel_units(dgm, velmod)
        unit == SortByOrdering(sel, velmod.ordering)
        P == DOMAIN x
        Z == DOMAIN z
    IN
    IF <<"sk", "mean">> \notin velmod.KS \/ <<"sk", "sd">> \notin velmod.KS
       \/ "tvd" \notin dgm.variables
    THEN [raised |-> TRUE, why |-> "key"]
    ELSE
    LET V0 == [u \in sel |-> [p \in P |->
                  Interp(velmod.xs, velmod.ys, velmod.V0_filled[u][<<"sk", "mean">>], <<x[p], y[p]>>, side)]]
        SD == [u \in sel |-> [p \in P |->
                  Interp(velmod.xs, velmod.ys, velmod.V0_filled[u][<<"sk", "sd">>], <<x[p], y[p]>>, side)]]
        k == [u \in sel |-> velmod.k[u]]
        tvd == [u \in sel |-> [p \in P |->
                  Interp(dgm.xs, dgm.ys, dgm.data["tvd"][u], <<x[p], y[p]>>, side)]]
        base == [raised |-> FALSE, why |-> "", unit |-> unit, has_z |-> has_z,
                 V0 |-> V0, V0_sd |-> SD, k |-> k, depth |-> tvd,
                 ordering |-> [u \in sel |-> dgm.ordering[u]]]
    IN
    IF ~has_z THEN base
    ELSE IF sel = {} THEN [raised |-> TRUE, why |-> "argmax"]
    ELSE
    LET unit_vinst == [u \in sel |-> [p \in P |-> [zi \in Z |->
                          FSub(V0[u][p], FMul(k[u], Num(z[zi])))]]]
        unit_samples == [p \in P |-> [zi \in Z |->
                          IdxMax(unit, [u \in sel |-> FLt(tvd[u][p], Num(z[zi]))])]]
        unit_mask == [u \in sel |-> [p \in P |-> [zi \in Z |-> u = unit_samples[p][zi]]]]
        Vinst == [p \in P |-> [zi \in Z |->
                    SumSkipNa(unit, [u \in sel |-> Where(unit_mask[u][p][zi], unit_vinst[u][p][zi])])]]
    IN  [raised |-> FALSE, why |-> "", unit |-> unit, has_z |-> has_z,
         V0 |-> V0, V0_sd |-> SD, k |-> k, depth |-> tvd,
         ordering |-> [u \in sel |-> dgm.ordering[u]],
         unit_samples |-> unit_samples, unit_mask |-> unit_mask, Vinst |-> Vinst]

----------------------------------------------------------------------------
(* The inputs: grid files, k tables, query arrays *)

XA == {0, 2}

XB == {2, 4}

XW == {0, 2, 4}

YA == {0, 2}

Const(xs, ys, v) == [c \in Cells(xs, ys) |-> Num(v)]

\* a field that changes along x
Ramp(xs, ys, v, s) == [c \in Cells(xs, ys) |-> Num(v + s * c[1])]

\* a field with null nodes
Holed(field, holes) == [c \in DOMAIN field |-> IF c \in holes THEN NaN ELSE field[c]]

GridFile(name, nodes) == [name |-> name, malformed |-> FALSE, nodes |-> nodes]

VelmodCatalog ==
    { GridFile(<<"N", "vel", "V0", "sk">>, Ramp(XA, YA, 1500, 10)),
      GridFile(<<"N", "vel", "V0", "sk">>, Holed(Ramp(XW, YA, 1500, 10), {<<0, 0>>})),
      GridFile(<<"NLM", "vel", "V0", "sk">>, Const(XA, YA, 1800)),
      GridFile(<<"NLNM", "vel", "V0", "sk">>, Holed(Const(XW, YA, 1900), {<<4, 0>>, <<4, 2>>})),
      GridFile(<<"ZE", "vel", "V0", "sk">>, Holed(Const(XA, YA, 0), Cells(XA, YA))),
      GridFile(<<"ZE", "vel", "V0", "sk">>, Const(XA, YA, 1700)),
      GridFile(<<"ZE", "vel", "Vint", "sk">>, Const(XW, YA, 1600)),
      GridFile(<<"ZE", "vel", "Vint", "sk">>, Const(XA, YA, 1600)),
      GridFile(<<"N", "vel", "Vint", "sk">>, Const(XA, YA, 1550)),
      GridFile(<<"N", "vel", "V0", "sk", "sd">>, Const(XA, YA, 20)),
      GridFile(<<"XX", "vel", "V0", "sk">>, Const(XA, YA, 1400)),
      GridFile(<<"DC", "vel", "V0", "sk">>, Const(XW, YA, 2000)),
      GridFile(<<"N", "V0", "sk">>, Const(XA, YA, 1500)),
      [name |-> <<"N", "vel", "V0", "sk">>, malformed |-> TRUE, nodes |-> Const(XA, YA, 0)] }

DgmCatalog ==
    { GridFile(<<"N", "tvd", "merge", "UTM31">>, Const(XA, YA, -100)),
      GridFile(<<"N", "tvd", "merge", "UTM31">>, Ramp(XW, YA, -100, -50)),
      GridFile(<<"NLNM", "tvd", "merge", "UTM31">>, Const(XA, YA, -200)),
      GridFile(<<"NLNM", "tvd", "merge", "UTM31">>, Const(XB, YA, -200)),
      GridFile(<<"ZE", "tvd", "merge", "UTM31">>, Holed(Const(XW, YA, -250), {<<0, 0>>})),
      GridFile(<<"XX", "tvd", "merge", "UTM31">>, Const(XA, YA, -50)),
      GridFile(<<"DC", "tvd", "merge", "UTM31">>, Const(XA, YA, -400)),
      [name |-> <<"N", "tvd", "merge", "UTM31">>, malformed |-> TRUE, nodes |-> Const(XA, YA, 0)] }

\* the subsets of S with at most n elements
RECURSIVE SubsetsUpTo(_, _)
SubsetsUpTo(S, n) ==
    IF n = 0 THEN {{}}
    ELSE LET smaller == SubsetsUpTo(S, n - 1)
         IN  smaller \cup {T \cup {e} : T \in smaller, e \in S}

\* the sequences without repetition over S with at most n elements
RECURSIVE SeqsUpTo(_, _)
SeqsUpTo(S, n) ==
    IF n = 0 THEN {<< >>}
    ELSE LET shorter == SeqsUpTo(S, n - 1)
         IN  shorter \cup UNION {{Append(q, e) : e \in S \ Range(q)} : q \in shorter}

\* a complete VELMOD distribution: V0 and Vint, mean and sd
VelmodBasic ==
    { { GridFile(<<"N", "vel", "V0", "sk">>, Ramp(XA, YA, 1500, 10)),
        GridFile(<<"ZE", "vel", "Vint", "sk">>, Const(XW, YA, 1600)),
        GridFile(<<"N", "vel", "V0", "sk", "sd">>, Const(XA, YA, 20)) } }

DgmBasic ==
    { << GridFile(<<"N", "tvd", "merge", "UTM31">>, Ramp(XW, YA, -100, -50)),
         GridFile(<<"ZE", "tvd", "merge", "UTM31">>, Holed(Const(XW, YA, -250), {<<0, 0>>})) >>,
      << GridFile(<<"NLNM", "tvd", "merge", "UTM31">>, Const(XA, YA, -200)),
         GridFile(<<"XX", "tvd", "merge", "UTM31">>, Const(XA, YA, -50)) >> }

\* k tables (unit -> k) as read from the csv file
KTables ==
    { [u \in {"N", "NLNM", "ZE", "DC"} |->
          IF u = "N" THEN Rat(1, 2) ELSE IF u = "NLNM" THEN Num(1) ELSE Num(0)],
      [u \in {"N", "NLNM", "ZE"} |->
          IF u = "N" THEN Rat(1, 2) ELSE IF u = "NLNM" THEN Num(1) ELSE Num(0)],
      [u \in {"N"} |-> Rat(1, 2)] }

\* paired query coordinates: grid nodes, cell interiors, points outside the grids
Queries ==
    { [x |-> <<0, 1, 2, 5>>, y |-> <<0, 1, 2, 1>>],
      [x |-> <<3, 4, 2, -1>>, y |-> <<1, 2, 1, 0>>] }

\* z arguments: None, or an array of depths (negative is down)
ZArgs ==
    { [has_z |-> FALSE, z |-> << >>],
      [has_z |-> TRUE, z |-> <<-50, -150, -225, -350>>] }

CRSs == {crs_UTM31, "epsg:28992"}

BisectSides == {"left", "right"}

----------------------------------------------------------------------------
(* The state machine *)

Init ==
    /\ \/ /\ velmod_zmap_list \in SubsetsUpTo(VelmodCatalog, MaxVelmodFiles)
          /\ dgm_zmap_list \in DgmBasic
       \/ /\ velmod_zmap_list \in VelmodBasic
          /\ dgm_zmap_list \in SeqsUpTo(DgmCatalog, MaxDgmFiles)
    /\ velmoddata \in KTables
    /\ pc = "start"
    /\ out_velmod = NoModel
    /\ out_dgm = NoModel
    /\ call = [made |-> FALSE]

\* convert(), lines 78-120: the VELMOD part up to to_netcdf(out_velmod)
convert_velmod ==
    /\ pc = "start"
    /\ LET r == ConvertVelmod(velmod_zmap_list, velmoddata)
       IN  IF r.ok
           THEN /\ out_velmod' = r.model
                /\ pc' = "velmod_done"
           ELSE /\ out_velmod' = out_velmod
                /\ pc' = "failed"
    /\ UNCHANGED <<velmod_zmap_list, velmoddata, dgm_zmap_list, out_dgm, call>>

\* convert(), lines 122-152: the DGM part up to to_netcdf(out_dgm)
convert_dgm ==
    /\ pc = "velmod_done"
    /\ LET r == ConvertDgm(dgm_zmap_list)
       IN  IF r.ok
           THEN /\ out_dgm' = r.model
                /\ pc' = "done"
           ELSE /\ out_dgm' = out_dgm
                /\ pc' = "failed"
    /\ UNCHANGED <<velmod_zmap_list, velmoddata, dgm_zmap_list, out_velmod, call>>

\* a call of sample_dgm_velmod on the two persisted models; the caller may have
\* reprojected the DGM model to another CRS after loading it.  Calls only read
\* the models and do not depend on each other, so one call per run is modelled.
Sample ==
    /\ pc = "done"
    /\ ~call.made
    /\ \E q \in Queries, za \in ZArgs, crs \in CRSs, side \in BisectSides :
          LET dgm == [out_dgm EXCEPT !.crs = crs]
          IN  call' = [made |-> TRUE, x |-> q.x, y |-> q.y, has_z |-> za.has_z, z |-> za.z,
                       dgm |-> dgm, velmod |-> out_velmod, side |-> side,
                       out |-> sample_dgm_velmod(q.x, q.y, za.has_z, za.z, dgm, out_velmod, side)]
    /\ UNCHANGED <<velmod_zmap_list, velmoddata, dgm_zmap_list, pc, out_velmod, out_dgm>>

Next == convert_velmod \/ convert_dgm \/ Sample

Spec == Init /\ [][Next]_vars

----------------------------------------------------------------------------
(* Properties *)

\* the call returned a sample result
Returned == call.made /\ ~call.out.raised

\* the call returned a sample result with the depth dependent part
Resolved == Returned /\ call.out.has_z

Points == DOMAIN call.x

Depths == DOMAIN call.z

ZVal(zi) == Num(call.z[zi])

Active(p, zi) == call.out.unit_samples[p][zi]

\* the units common to the two models handed to the call
Common == Range(call.dgm.unit) \cap Range(call.velmod.unit)

Mean == <<"sk", "mean">>

\* the linear velocity law of unit u at query p and depth zi, from the sampled V0 and k
Law(u, p, zi) == FSub(call.out.V0[u][p], FMul(call.out.k[u], ZVal(zi)))

\* the base of u lies below the target depth
Below(u, p, zi) == FLt(call.out.depth[u][p], ZVal(zi))

\* the base of u lies above the target depth
Above(u, p, zi) == FLt(ZVal(zi), call.out.depth[u][p])

C2_FirstAbove ==
    Resolved =>
        \A p \in Points, zi \in Depths :
            \E i \in DOMAIN call.out.unit :
                /\ call.out.unit[i] = Active(p, zi)
                /\ Above(call.out.unit[i], p, zi)
                /\ \A j \in 1..(i - 1) : ~Above(call.out.unit[j], p, zi)

\* C2 amended: the active unit is the first unit, from the top of the canonical
\* order, whose interpolated base depth lies below z (base < z); when no unit
\* has such a base it is the first unit of the stack.
C2_FirstBelow ==
    Resolved =>
        \A p \in Points, zi \in Depths :
            IF \E u \in Common : Below(u, p, zi)
            THEN \E i \in DOMAIN call.out.unit :
                    /\ call.out.unit[i] = Active(p, zi)
                    /\ Below(call.out.unit[i], p, zi)
                    /\ \A j \in 1..(i - 1) : ~Below(call.out.unit[j], p, zi)
            ELSE Active(p, zi) = call.out.unit[1]

\* the active unit is not the first of the stack: a unit above it has its base above z
C2_Witness ==
    /\ Resolved
    /\ \E p \in Points, zi \in Depths :
          /\ Active(p, zi) # call.out.unit[1]
          /\ Below(Active(p, zi), p, zi)
          /\ Above(call.out.unit[1], p, zi)

\* C3: at a fixed query point the ordering index of the resolved unit does not
\* decrease as z decreases.
C3_DepthMonotonic ==
    Resolved =>
        \A p \in Points, z1 \in Depths, z2 \in Depths :
            call.z[z1] > call.z[z2]
                => call.out.ordering[Active(p, z2)] >= call.out.ordering[Active(p, z1)]

\* C4: the assembled DGM model holds the terminal unit DC with base -inf at
\* every cell of the model grid.
C4_TerminalUnitEverywhere ==
    out_dgm.written =>
        /\ "DC" \in Range(out_dgm.unit)
        /\ \A c \in Cells(out_dgm.xs, out_dgm.ys) : out_dgm.data["tvd"]["DC"][c] = NegInf

\* C5: with differing CRS tags the call fails on the CRS assertion and returns
\* no result (nothing was selected or interpolated); with equal tags the
\* assertion never fails.
C5_CrsMismatchFails ==
    call.made =>
        IF call.dgm.crs # call.velmod.crs
        THEN call.out = [raised |-> TRUE, why |-> "crs"]
        ELSE call.out.why # "crs"

C5_Witness == call.made /\ call.dgm.crs # call.velmod.crs /\ call.out.raised

\* C6: a conversion run that ends in failure has written neither model file.
C6_NoPartialOutput == pc = "failed" => (~out_velmod.written /\ ~out_dgm.written)

\* the ordering field of model m holds each unit's index in the vocabulary
OrderingIsVocabularyIndex(m) ==
    /\ DOMAIN m.ordering = Range(m.unit)
    /\ \A u \in Range(m.unit) :
          /\ m.ordering[u] \in 0..(Len(unit_canonical_order) - 1)
          /\ unit_canonical_order[m.ordering[u] + 1] = u

\* the unit axis of model m is sorted ascending by the ordering field
UnitAxisSorted(m) ==
    \A i, j \in DOMAIN m.unit : i < j => m.ordering[m.unit[i]] < m.ordering[m.unit[j]]

\* a VELMOD file named for a unit outside the vocabulary ("NLM" is renamed on reading)
UnknownVelmodUnit ==
    \E f \in velmod_zmap_list : f.name[1] # "NLM" /\ ~InVocabulary(f.name[1])

UnknownDgmUnit ==
    \E i \in DOMAIN dgm_zmap_list : ~InVocabulary(dgm_zmap_list[i].name[1])

\* C7: in each written model the ordering field is the unit's index in
\* unit_canonical_order and the unit axis is sorted ascending by it; a unit code
\* outside the vocabulary makes the conversion fail without writing that model.
C7_CanonicalOrdering ==
    /\ out_velmod.written => (OrderingIsVocabularyIndex(out_velmod) /\ UnitAxisSorted(out_velmod))
    /\ out_dgm.written => (OrderingIsVocabularyIndex(out_dgm) /\ UnitAxisSorted(out_dgm))
    /\ (UnknownVelmodUnit /\ pc # "start") => (pc = "failed" /\ ~out_velmod.written)
    /\ (UnknownDgmUnit /\ pc \notin {"start", "velmod_done"}) => (pc = "failed" /\ ~out_dgm.written)

\* both models written, with unit axes of several units
C7_Witness ==
    /\ out_velmod.written /\ out_dgm.written
    /\ Len(out_velmod.unit) >= 4
    /\ Len(out_dgm.unit) >= 3

\* the arrays read from the VELMOD files of the run
VelmodRead == {velmod_zmap_to_xarray(f) : f \in velmod_zmap_list}

\* ZE has no original V0 data (mean statistic) in the files of the run
ZEWithoutV0 ==
    \A c \in Cells(out_velmod.xs, out_velmod.ys) : IsNaN(VelmodAt(VelmodRead, "ZE", "V0", Mean, c))

\* the alternate intercept of ZE is 1600 at every cell of the model handed to the call
ZEVint1600 ==
    \A c \in Cells(call.velmod.xs, call.velmod.ys) : call.velmod.Vint["ZE"][Mean][c] = Num(1600)

\* query p lies within the axis bounds of the VELMOD grid
InVelmodBounds(p) ==
    /\ \E a, b \in call.velmod.xs : a <= call.x[p] /\ call.x[p] <= b
    /\ \E a, b \in call.velmod.ys : a <= call.y[p] /\ call.y[p] <= b

\* C8: V0 of ZE is the alternate intercept and the gap filled intercept is
\* computed from it; V0 of every other unit is what the files hold; a ZE with
\* alternate intercept 1600 everywhere and no V0 data samples V0 = 1600 at
\* every query point within the grid bounds.
C8_ZESubstitution ==
    /\ out_velmod.written =>
          /\ \A ks \in out_velmod.KS, c \in Cells(out_velmod.xs, out_velmod.ys) :
                /\ out_velmod.V0["ZE"][ks][c] = VelmodAt(VelmodRead, "ZE", "Vint", ks, c)
                /\ ~IsNaN(out_velmod.V0["ZE"][ks][c])
                      => out_velmod.V0_filled["ZE"][ks][c] = VelmodAt(VelmodRead, "ZE", "Vint", ks, c)
          /\ \A u \in Range(out_velmod.unit) \ {"ZE"} :
                \A ks \in out_velmod.KS, c \in Cells(out_velmod.xs, out_velmod.ys) :
                    out_velmod.V0[u][ks][c] = VelmodAt(VelmodRead, u, "V0", ks, c)
    /\ (Returned /\ "ZE" \in Common /\ ZEVint1600 /\ ZEWithoutV0) =>
          \A p \in Points : InVelmodBounds(p) => call.out.V0["ZE"][p] = Num(1600)

\* the scenario of the claim, sampled with depths at a point within the grid
C8_Witness ==
    /\ Resolved /\ "ZE" \in Common /\ ZEVint1600 /\ ZEWithoutV0
    /\ \E p \in Points : InVelmodBounds(p) /\ call.out.V0["ZE"][p] = Num(1600)
    /\ \E u \in Range(out_velmod.unit) \ {"ZE"} :
          \E c \in Cells(out_velmod.xs, out_velmod.ys) : IsNum(out_velmod.V0[u][Mean][c])

\* the valid cells of a field
Valid(field) == {c \in DOMAIN field : ~IsNaN(field[c])}

\* C9: V0_filled equals V0 where V0 is valid; a no-data cell holds the mean of
\* the valid V0 cells of the same unit (and statistic); a unit without valid
\* cells is no-data everywhere.
C9_FilledByUnitMean ==
    out_velmod.written =>
        \A u \in Range(out_velmod.unit), ks \in out_velmod.KS :
            LET V == out_velmod.V0[u][ks]
                F == out_velmod.V0_filled[u][ks]
                n == Cardinality(Valid(V))
            IN  \A c \in DOMAIN V :
                    IF c \in Valid(V) THEN F[c] = V[c]
                    ELSE IF n = 0 THEN IsNaN(F[c])
                    ELSE IsNum(F[c]) /\ FMul(F[c], Num(n)) = SumValid(V, Valid(V))

\* a unit with valid and no-data cells, a second unit with another mean, and a
\* unit without any valid cell, in a model that was written
C9_Witness ==
    /\ out_velmod.written
    /\ \E u, w, e \in Range(out_velmod.unit) :
          /\ u # w
          /\ Valid(out_velmod.V0[u][Mean]) # {}
          /\ Valid(out_velmod.V0[u][Mean]) # DOMAIN out_velmod.V0[u][Mean]
          /\ Valid(out_velmod.V0[w][Mean]) # {}
          /\ MeanXY(out_velmod.V0[w][Mean]) # MeanXY(out_velmod.V0[u][Mean])
          /\ Valid(out_velmod.V0[e][Mean]) = {}

\* the interpolated base depth of unit u at query p, from the model handed to the call
DepthAt(u, p) ==
    Interp(call.dgm.xs, call.dgm.ys, call.dgm.data["tvd"][u], <<call.x[p], call.y[p]>>, call.side)

\* no common unit has its interpolated base below the target depth
NoneBelow(p, zi) == \A u \in Common : ~FLt(DepthAt(u, p), ZVal(zi))

\* the call is made with depths, equal CRS tags and the statistics it selects
DepthCall ==
    /\ call.made /\ call.has_z
    /\ call.dgm.crs = call.velmod.crs
    /\ {Mean, <<"sk", "sd">>} \subseteq call.velmod.KS

\* the result at (p, zi) is that of the first unit of the sorted common stack
FirstUnitReported(p, zi) ==
    LET a == Active(p, zi)
    IN  /\ a \in Common
        /\ \A w \in Common : call.velmod.ordering[a] <= call.velmod.ordering[w]
        /\ \A u \in Common : call.out.unit_mask[u][p][zi] <=> (u = a)
        /\ call.out.Vinst[p][zi] = IF IsNaN(Law(a, p, zi)) THEN Num(0) ELSE Law(a, p, zi)

\* C10 as stated: when no common unit has its base below z at a query point
\* the call does not fail and reports the first unit of the common stack.
C10_FallbackNeverFails ==
    DepthCall =>
        \A p \in Points, zi \in Depths :
            NoneBelow(p, zi) => (~call.out.raised /\ FirstUnitReported(p, zi))

\* C10 amended: the same, for models that have at least one unit in common.
C10_FallbackToFirstUnit ==
    (DepthCall /\ Common # {}) =>
        \A p \in Points, zi \in Depths :
            NoneBelow(p, zi) => (~call.out.raised /\ FirstUnitReported(p, zi))

\* a stack of several units without a base below z, at a point within the grid
\* and at a point outside it
C10_Witness ==
    /\ Resolved
    /\ Cardinality(Common) >= 2
    /\ \E p \in Points, zi \in Depths :
          NoneBelow(p, zi) /\ \E u \in Common : IsNum(call.out.depth[u][p])
    /\ \E p \in Points, zi \in Depths :
          NoneBelow(p, zi) /\ \A u \in Common : IsNaN(call.out.depth[u][p])

====
